---- MODULE Spec2Model ----
\* Model of reachinbox-onebox/src/server.ts: the IMAP session (connect, openBox,
\* initial search, 'mail' listener, keep-alive timer) and the per-message
\* pipeline processNewEmail = indexEmail ; classifyEmail ; updateEmailCategory ;
\* triggerWebhooks.  Every `await` of the source is one pending operation of a
\* run; the code that runs between two awaits is part of the action that
\* completes the first one.
EXTENDS Integers, Sequences, FiniteSets, TLC

\* ---------------------------------------------------------------- bounds
\* messages the mailbox may come to hold
MaxMsgs == 2
\* messages already in the mailbox when the process starts
MaxInitMsgs == 1
\* messages that live fetches emit, in total
MaxRuns == 2
\* keep-alive commands the timer sends
MaxProbes == 1

\* ---------------------------------------------------------------- values
\* "" stands for an absent aiCategory (EmailDocument.aiCategory is optional)
NoCategory == ""

validCategories == {"Interested", "Meeting Booked", "Not Interested", "Spam", "Out of Office"}

\* The classifier answers the model draws (`data`, the parsed JSON body): null,
\* or an object whose category is missing, a number, or a string.
GeminiResponses ==
    {[isNull |-> TRUE, t |-> "undefined", v |-> ""],
     [isNull |-> FALSE, t |-> "undefined", v |-> ""],
     [isNull |-> FALSE, t |-> "number", v |-> "42"],
     [isNull |-> FALSE, t |-> "string", v |-> "Urgent"],
     [isNull |-> FALSE, t |-> "string", v |-> "interested"]}
    \cup {[isNull |-> FALSE, t |-> "string", v |-> c] : c \in validCategories}

\* No answer read (yet).
NoData == [isNull |-> TRUE, t |-> "none", v |-> ""]

\* The server-assigned UID of the message at sequence number s.  UIDs differ
\* from sequence numbers.
UidOf(s) == 116 + s

\* The pending asynchronous operations of one message's handling, in the order
\* msg.on('body') and processNewEmail await them.
Ops == <<"parse", "index", "refresh1", "classify", "update", "refresh2", "slack", "webhook">>

VARIABLES
    conn,        \* "connecting" | "opening" | "open" | "unselected" | "closed" | "crashed"
    backfill,    \* "none" | "searching" | "fetching" | "done" | "error"
    backfillLeft,\* messages of the initial fetch not yet emitted
    nMsgs,       \* messages in INBOX (sequence numbers 1..nMsgs)
    batches,     \* live fetches: [total, numNew, left], left = not yet emitted
    runs,        \* one record per message emitted by a live fetch
    store,       \* the "emails" index: a set of documents
    notified,    \* deliveries accepted by a sink: [run, uid, sink]
    listening,   \* the 'mail' listener is registered
    watchdog,    \* the keep-alive interval timer is running
    probes       \* keep-alive commands sent by the timer

vars == <<conn, backfill, backfillLeft, nMsgs, batches, runs, store, notified,
          listening, watchdog, probes>>

sessionVars == <<conn, backfill, backfillLeft, nMsgs, batches, listening, watchdog, probes>>

RunIds == 1..Len(runs)

\* The outcomes of one request to a collaborator: TRUE, it succeeded; FALSE, it
\* failed (the callback got an error, the promise was rejected).
Outcomes == BOOLEAN

\* ------------------------------------------------------ Elasticsearch
\* Mutant of EsIndex: the write merges into the stored document, whose label
\* survives.
EsIndex_Merges(s, r, uid) ==
    {d \in s : d.id # uid}
        \cup {[id |-> uid, from |-> r,
               aiCategory |-> IF \E d \in s : d.id = uid
                              THEN (CHOOSE d \in s : d.id = uid).aiCategory
                              ELSE NoCategory,
               fresh |-> FALSE]}

\* Mutant of EsIndex: the write adds a document and leaves the old one.
EsIndex_Appends(s, r, uid) ==
    s \cup {[id |-> uid, from |-> r, aiCategory |-> NoCategory, fresh |-> FALSE]}

\* elasticClient.index({id, body}): the document with that id is replaced as a
\* whole; the body is the emailDoc of run r, which carries no aiCategory.
EsIndex(s, r, uid) ==
    {d \in s : d.id # uid}
        \cup {[id |-> uid, from |-> r, aiCategory |-> NoCategory, fresh |-> FALSE]}

\* Mutant of EsUpdate: a label that is already stored is kept.
EsUpdate_KeepsExisting(s, uid, category) ==
    {IF d.id = uid /\ d.aiCategory = NoCategory
     THEN [d EXCEPT !.aiCategory = category, !.fresh = FALSE] ELSE d : d \in s}

\* elasticClient.update({id, doc: {aiCategory}}): a partial update of the
\* document with that id.
EsUpdate(s, uid, category) ==
    {IF d.id = uid THEN [d EXCEPT !.aiCategory = category, !.fresh = FALSE] ELSE d : d \in s}

\* elasticClient.indices.refresh: every write so far becomes searchable.
EsRefresh(s) == {[d EXCEPT !.fresh = TRUE] : d \in s}

HasDoc(s, uid) == \E d \in s : d.id = uid

\* ------------------------------------------------------ pure functions
\* Mutant of classifyEmail: any string is taken as the category.
classifyEmail_AnyString(data) ==
    IF ~data.isNull /\ data.t = "string" THEN data.v ELSE "Not Interested"

\* classifyEmail, after the response was read.
classifyEmail(data) ==
    IF ~data.isNull /\ data.t = "string" /\ data.v \in validCategories
    THEN data.v
    ELSE "Not Interested"

\* triggerWebhooks' guard.
triggerWebhooks(aiCategory) == aiCategory = "Interested"

\* Mutant of processNewEmail: the classifier is called as soon as the index
\* request was answered, without waiting for the refresh.
processNewEmail_RefreshNotAwaited(op, category) ==
    CASE op = "parse" -> "index"
      [] op = "index" -> "classify"
      [] op = "refresh1" -> "classify"
      [] op = "classify" -> "update"
      [] op = "update" -> "refresh2"
      [] op = "refresh2" -> IF triggerWebhooks(category) THEN "slack" ELSE "done"
      [] op = "slack" -> "webhook"
      [] op = "webhook" -> "done"

\* The operation a run awaits next, once operation op has completed.
processNewEmail(op, category) ==
    CASE op = "parse" -> "index"
      [] op = "index" -> "refresh1"
      [] op = "refresh1" -> "classify"
      [] op = "classify" -> "update"
      [] op = "update" -> "refresh2"
      [] op = "refresh2" -> IF triggerWebhooks(category) THEN "slack" ELSE "done"
      [] op = "slack" -> "webhook"
      [] op = "webhook" -> "done"

\* Mutant of CatchError: the error is logged where it happened and the
\* pipeline goes on.
CatchError_GoesOn(rs, r, op) ==
    IF op \in {"parse", "attributes"}
    THEN [rs EXCEPT ![r].pc = "caught", ![r].err = op]
    ELSE [rs EXCEPT ![r].pc = processNewEmail(op, rs[r].category), ![r].err = op]

\* Mutant of CatchError: the error ends the handling of every message of the
\* same fetch.
CatchError_AbortsBatch(rs, r, op) ==
    [s \in DOMAIN rs |->
        IF s = r THEN [rs[s] EXCEPT !.pc = "caught", !.err = op,
                                    !.category = NoCategory, !.data = NoData]
        ELSE IF rs[s].batch = rs[r].batch /\ rs[s].pc \notin {"done", "caught"}
        THEN [rs[s] EXCEPT !.pc = "caught", !.err = "aborted",
                           !.category = NoCategory, !.data = NoData]
        ELSE rs[s]]

\* The catch block of msg.on('body'): the error ends this message's handling
\* and nothing else; the locals of processNewEmail are gone.
CatchError(rs, r, op) ==
    [rs EXCEPT ![r].pc = "caught", ![r].err = op, ![r].category = NoCategory,
               ![r].data = NoData]

\* The runs whose handling has ended.
Finished(rs) == {s \in DOMAIN rs : rs[s].pc \in {"done", "caught"}}

\* The runs whose elasticClient.update has executed.
Annotated(rs) ==
    {s \in DOMAIN rs : \E i \in DOMAIN rs[s].trace : rs[s].trace[i] = "update"}

\* One operation of run r completed: the continuation runs to the next await.
\* prior: the runs that had ended when processNewEmail was called for r.
\* annotated: the runs whose update had executed when the update of r did.
\* After updateEmailCategory returns, emailData.aiCategory is set and
\* triggerWebhooks evaluates its guard.
Advance(rs, r, op) ==
    [rs EXCEPT ![r].pc = processNewEmail(op, rs[r].category),
               ![r].trace = Append(@, op),
               ![r].data = IF op = "classify" THEN @ ELSE NoData,
               ![r].prior = IF op = "parse" THEN Finished(rs) ELSE @,
               ![r].annotated = IF op = "update" THEN Annotated(rs) ELSE @,
               ![r].aiCategory = IF op = "refresh2" THEN rs[r].category ELSE @,
               ![r].fired = @ \/ (op = "refresh2" /\ triggerWebhooks(rs[r].category))]

\* ---------------------------------------------------------------- Init
Init ==
    /\ conn = "connecting"
    /\ backfill = "none"
    /\ backfillLeft = 0
    /\ nMsgs \in 0..MaxInitMsgs
    /\ batches = <<>>
    /\ runs = <<>>
    /\ store = {}
    /\ notified = {}
    /\ listening = FALSE
    /\ watchdog = FALSE
    /\ probes = 0

\* ------------------------------------------------------------- session
\* imap.once('ready'): openInbox is called.
ImapReady ==
    /\ conn = "connecting"
    /\ conn' = "opening"
    /\ UNCHANGED <<backfill, backfillLeft, nMsgs, batches, runs, store, notified,
                   listening, watchdog, probes>>

\* What the runtime does with a rejected promise that nothing handles: it
\* ends the process (the default since Node 15) or only prints a warning.
UnhandledRejection == {"crashed", "unselected"}

\* The openBox callback, an async function.  An error is rethrown in it: the
\* promise it returns is rejected and nothing handles the rejection.
\* Otherwise the initial search is issued, the 'mail' listener is registered
\* and the keep-alive timer is started.
OpenBoxDone ==
    /\ conn = "opening"
    /\ \E ok \in Outcomes :
         /\ IF ok
            THEN /\ conn' = "open"
                 /\ backfill' = "searching"
                 /\ listening' = TRUE
                 /\ watchdog' = TRUE
            ELSE /\ conn' \in UnhandledRejection
                 /\ UNCHANGED <<backfill, listening, watchdog>>
    /\ UNCHANGED <<backfillLeft, nMsgs, batches, runs, store, notified, probes>>

\* The callback of the initial imap.search.
SearchDone ==
    /\ conn = "open"
    /\ backfill = "searching"
    /\ \E ok \in Outcomes :
         /\ IF ~ok THEN backfill' = "error" /\ backfillLeft' = 0
            ELSE IF nMsgs = 0 THEN backfill' = "done" /\ backfillLeft' = 0
            ELSE backfill' = "fetching" /\ backfillLeft' = nMsgs
    /\ UNCHANGED <<conn, nMsgs, batches, runs, store, notified, listening, watchdog, probes>>

BackfillMessage_RunsPipeline ==
    /\ conn = "open"
    /\ backfill = "fetching"
    /\ backfillLeft' = backfillLeft - 1
    /\ backfill' = IF backfillLeft = 1 THEN "done" ELSE "fetching"
    /\ store' = EsIndex(store, 0, UidOf(backfillLeft))
    /\ UNCHANGED <<conn, nMsgs, batches, runs, notified, listening, watchdog, probes>>

\* One 'message' of the initial fetch: its handlers keep the uid and the header
\* bytes in locals and store nothing.
BackfillMessage ==
    /\ conn = "open"
    /\ backfill = "fetching"
    /\ backfillLeft' = backfillLeft - 1
    /\ backfill' = IF backfillLeft = 1 THEN "done" ELSE "fetching"
    /\ UNCHANGED <<conn, nMsgs, batches, runs, store, notified, listening, watchdog,
                   probes>>

FetchInFlight == \E b \in DOMAIN batches : batches[b].left # <<>>

\* imap.seq.fetch('1:*'): every sequence number of a mailbox of n messages.
SeqFetchAll(n) == [i \in 1..n |-> i]

\* A message arrives and the server pushes EXISTS: the 'mail' listener issues
\* a fetch.
NewMail ==
    /\ conn = "open"
    /\ listening
    /\ nMsgs < MaxMsgs
    /\ nMsgs' = nMsgs + 1
    /\ batches' = Append(batches, [total |-> nMsgs + 1, numNew |-> 1,
                                    left |-> SeqFetchAll(nMsgs + 1)])
    /\ UNCHANGED <<conn, backfill, backfillLeft, runs, store, notified,
                   listening, watchdog, probes>>

\* fetcher.on('message') with msg.on('body'): simpleParser starts on the body
\* stream; `attributes` is still unassigned.
FetchMessage(b) ==
    /\ conn = "open"
    /\ batches[b].left # <<>>
    /\ Len(runs) < MaxRuns
    /\ runs' = Append(runs, [batch |-> b, seq |-> Head(batches[b].left), attrs |-> 0,
                             pc |-> "parse", data |-> NoData, category |-> NoCategory,
                             aiCategory |-> NoCategory, err |-> "",
                             trace |-> <<>>, fired |-> FALSE, prior |-> {},
                             annotated |-> {}])
    /\ batches' = [batches EXCEPT ![b].left = Tail(@)]
    /\ UNCHANGED <<conn, backfill, backfillLeft, nMsgs, store, notified,
                   listening, watchdog, probes>>

\* Mutant of MsgAttributes: `attributes` is one variable for the whole fetch.
MsgAttributes_Shared(r) ==
    /\ conn = "open"
    /\ runs[r].pc = "parse"
    /\ runs' = [s \in DOMAIN runs |->
                  IF runs[s].batch = runs[r].batch /\ runs[s].pc = "parse"
                  THEN [runs[s] EXCEPT !.attrs = UidOf(runs[r].seq)]
                  ELSE runs[s]]
    /\ UNCHANGED <<sessionVars, store, notified>>

\* msg.on('attributes'): `attributes` is a local of this message's handler.
MsgAttributes(r) ==
    /\ conn = "open"
    /\ runs[r].pc = "parse"
    /\ runs[r].attrs = 0
    /\ runs' = [runs EXCEPT ![r].attrs = UidOf(runs[r].seq)]
    /\ UNCHANGED <<sessionVars, store, notified>>

\* A closed connection emits no further message.
DropFetches == [b \in DOMAIN batches |-> [batches[b] EXCEPT !.left = <<>>]]

\* imap.once('error'): logged.
ImapError ==
    /\ conn \in {"connecting", "opening", "open", "unselected"}
    /\ conn' = "closed"
    /\ batches' = DropFetches
    /\ UNCHANGED <<backfill, backfillLeft, nMsgs, runs, store, notified,
                   listening, watchdog, probes>>

\* imap.once('end'): logged.
ImapEnd ==
    /\ conn \in {"opening", "open", "unselected"}
    /\ conn' = "closed"
    /\ batches' = DropFetches
    /\ UNCHANGED <<backfill, backfillLeft, nMsgs, runs, store, notified,
                   listening, watchdog, probes>>

\* The setInterval callback: idle() if the client has it, else noop() if it
\* has that, else only a log line.
WatchdogTick ==
    /\ watchdog
    /\ probes < MaxProbes
    /\ \E api \in {"idle", "noop", "none"} :
         probes' = IF api = "none" THEN probes ELSE probes + 1
    /\ UNCHANGED <<conn, backfill, backfillLeft, nMsgs, batches, runs, store, notified,
                   listening, watchdog>>

\* ------------------------------------------------------------ pipeline
\* simpleParser resolved or rejected; emailDoc is built from `attributes`
\* (attributes.uid of an unassigned `attributes` is a TypeError).
ParseDone(r) ==
    /\ runs[r].pc = "parse"
    /\ \E ok \in Outcomes :
         /\ runs' = IF ~ok THEN CatchError(runs, r, "parse")
                    ELSE IF runs[r].attrs = 0 THEN CatchError(runs, r, "attributes")
                    ELSE Advance(runs, r, "parse")
    /\ UNCHANGED <<sessionVars, store, notified>>

\* indexEmail: elasticClient.index answered.
IndexDone(r) ==
    /\ runs[r].pc = "index"
    /\ \E ok \in Outcomes :
         /\ IF ok
            THEN /\ store' = EsIndex(store, r, runs[r].attrs)
                 /\ runs' = Advance(runs, r, "index")
            ELSE /\ runs' = CatchError(runs, r, "index")
                 /\ UNCHANGED store
    /\ UNCHANGED <<sessionVars, notified>>

\* indexEmail / updateEmailCategory: elasticClient.indices.refresh answered.
RefreshDone(r) ==
    /\ runs[r].pc \in {"refresh1", "refresh2"}
    /\ \E ok \in Outcomes :
         IF ok
         THEN /\ store' = EsRefresh(store)
              /\ runs' = Advance(runs, r, runs[r].pc)
         ELSE /\ runs' = CatchError(runs, r, runs[r].pc)
              /\ UNCHANGED store
    /\ UNCHANGED <<sessionVars, notified>>

\* classifyEmail: fetch or response.json() rejected, or a body was read.
ClassifyDone(r) ==
    /\ runs[r].pc = "classify"
    /\ \/ runs' = CatchError(runs, r, "classify")
       \/ \E data \in GeminiResponses :
            runs' = Advance([runs EXCEPT ![r].data = data,
                                         ![r].category = classifyEmail(data)],
                            r, "classify")
    /\ UNCHANGED <<sessionVars, store, notified>>

\* updateEmailCategory: elasticClient.update answered (an error if the
\* document is missing).
UpdateDone(r) ==
    /\ runs[r].pc = "update"
    /\ \E ok \in Outcomes :
         /\ IF ok /\ HasDoc(store, runs[r].attrs)
            THEN /\ store' = EsUpdate(store, runs[r].attrs, runs[r].category)
                 /\ runs' = Advance(runs, r, "update")
            ELSE /\ runs' = CatchError(runs, r, "update")
                 /\ UNCHANGED store
    /\ UNCHANGED <<sessionVars, notified>>

\* Mutant of WebhookDone: a rejected POST takes the label back.
WebhookDone_RollsBack(r) ==
    /\ runs[r].pc \in {"slack", "webhook"}
    /\ \E ok \in Outcomes :
         /\ IF ok
            THEN /\ notified' = notified \cup
                       {[run |-> r, uid |-> runs[r].attrs, sink |-> runs[r].pc]}
                 /\ runs' = Advance(runs, r, runs[r].pc)
                 /\ UNCHANGED store
            ELSE /\ runs' = CatchError(runs, r, runs[r].pc)
                 /\ store' = EsUpdate(store, runs[r].attrs, NoCategory)
                 /\ UNCHANGED notified
    /\ UNCHANGED sessionVars

\* triggerWebhooks: the POST to one sink resolved or rejected.
WebhookDone(r) ==
    /\ runs[r].pc \in {"slack", "webhook"}
    /\ \E ok \in Outcomes :
         /\ IF ok
            THEN /\ notified' = notified \cup
                       {[run |-> r, uid |-> runs[r].attrs, sink |-> runs[r].pc]}
                 /\ runs' = Advance(runs, r, runs[r].pc)
            ELSE /\ runs' = CatchError(runs, r, runs[r].pc)
                 /\ UNCHANGED notified
    /\ UNCHANGED <<sessionVars, store>>

Next ==
    \/ ImapReady
    \/ OpenBoxDone
    \/ SearchDone
    \/ BackfillMessage
    \/ NewMail
    \/ \E b \in DOMAIN batches : FetchMessage(b)
    \/ ImapError
    \/ ImapEnd
    \/ WatchdogTick
    \/ \E r \in RunIds : MsgAttributes(r)
    \/ \E r \in RunIds : ParseDone(r)
    \/ \E r \in RunIds : IndexDone(r)
    \/ \E r \in RunIds : RefreshDone(r)
    \/ \E r \in RunIds : ClassifyDone(r)
    \/ \E r \in RunIds : UpdateDone(r)
    \/ \E r \in RunIds : WebhookDone(r)

Spec == Init /\ [][Next]_vars

\* The steps that are bound to happen: the parser reaches the end of the bytes
\* it was given, and a request to the store settles (the client gives up
\* after its request timeout).  A POST sent with fetch carries no timeout and
\* the events of the mail server are the environment's: neither is bound to
\* happen.
LocalStep ==
    \E r \in RunIds : ParseDone(r) \/ IndexDone(r) \/ RefreshDone(r) \/ UpdateDone(r)

LiveSpec == Spec /\ WF_vars(LocalStep)

\* ------------------------------------------------------------- claims
Range(t) == {t[i] : i \in DOMAIN t}

IsPrefix(t, u) == Len(t) <= Len(u) /\ \A i \in 1..Len(t) : t[i] = u[i]

Ended(r) == runs[r].pc \in {"done", "caught"}

DocsOf(uid) == {d \in store : d.id = uid}

\* C1: in every run the operations complete in the order parse, index,
\* refresh, classify, update, refresh, slack, webhook, and the operation a run
\* waits for is the one right after those it has completed: no stage starts
\* before the previous stage, its refresh included, has finished, whatever
\* the other runs do.
C1_StagesInOrder ==
    \A r \in RunIds :
        /\ IsPrefix(runs[r].trace, Ops)
        /\ ~Ended(r) => runs[r].pc = Ops[Len(runs[r].trace) + 1]
        /\ runs[r].pc = "done" =>
              runs[r].trace \in {SubSeq(Ops, 1, 6), Ops}

\* C1 witness: one run has completed all eight operations while another run
\* is between its Persist and its Annotate.
C1_Witness ==
    \E r, s \in RunIds :
        /\ r # s
        /\ runs[r].trace = Ops
        /\ runs[s].pc \in {"classify", "update"}

\* The fixed label set, as the specification names it.
FiveLabels == {"Interested", "Meeting Booked", "Not Interested", "Spam", "Out of Office"}

\* C2: an answer whose category is missing, not a string, or a string outside
\* the five labels gives the category "Not Interested", and the label of
\* every stored document is absent or one of the five labels.
C2_DefaultOnInvalid ==
    /\ \A r \in RunIds :
          (runs[r].data # NoData
             /\ ~(runs[r].data.t = "string" /\ runs[r].data.v \in FiveLabels))
          => runs[r].category = "Not Interested"
    /\ \A r \in RunIds : runs[r].category \in FiveLabels \cup {NoCategory}
    /\ \A d \in store : d.aiCategory \in FiveLabels \cup {NoCategory}

\* C2 witness: a run read the string "Urgent" and is writing "Not Interested".
C2_Witness ==
    \E r \in RunIds :
        /\ runs[r].pc = "update"
        /\ runs[r].data.v = "Urgent"
        /\ runs[r].category = "Not Interested"

\* C3: when the classifier call of a persisted record fails, the record ends
\* up stored with the label "Not Interested" (and its run went on to Annotate).
C3_ClassifierFailureDefaults ==
    \A r \in RunIds :
        (runs[r].pc = "caught" /\ runs[r].err = "classify")
        => \E d \in DocsOf(runs[r].attrs) : d.aiCategory = "Not Interested"

\* C4: once a record's run has ended, Notify has fired in it if and only if
\* the stored label of the record is "Interested".
C4_NotifyIffStoredInterested ==
    \A r \in RunIds :
        (Ended(r) /\ runs[r].attrs # 0)
        => (runs[r].fired <=> \E d \in DocsOf(runs[r].attrs) : d.aiCategory = "Interested")

\* C5: when a record is processed a second time, after every earlier run on
\* its identifier has ended, and the second run completes, the store holds
\* exactly one document for the identifier: the second run's fields with the
\* second run's label.
C5_LastWriteWins ==
    \A r2 \in RunIds :
        LET same == {r1 \in RunIds \ {r2} : runs[r1].seq = runs[r2].seq}
        IN (runs[r2].pc = "done" /\ same # {} /\ same \subseteq runs[r2].prior)
           => DocsOf(runs[r2].attrs) =
                {[id |-> runs[r2].attrs, from |-> r2,
                  aiCategory |-> runs[r2].category, fresh |-> TRUE]}

\* C5 witness: two completed runs on one identifier, one after the other, with
\* different labels.
C5_Witness ==
    \E r1, r2 \in RunIds :
        /\ r1 # r2
        /\ runs[r1].seq = runs[r2].seq
        /\ runs[r1].pc = "done" /\ runs[r2].pc = "done"
        /\ r1 \in runs[r2].prior
        /\ runs[r1].category = "Interested"
        /\ runs[r2].category = "Spam"

\* C6: the timer never sends a keep-alive command while a live fetch has
\* messages still to emit.
C6_NoProbeDuringFetch == [][probes' # probes => ~FetchInFlight]_vars

\* C7: whenever the connection is closed, by an error or by the server, after
\* the session finished its backfill and was idling, the session eventually
\* has the mailbox open again.
C7_Reconnects == (conn = "closed" /\ backfill = "done") ~> (conn = "open")

\* C8: a run whose index request or the refresh after it failed has ended
\* there: it called neither the classifier nor update nor a sink, wrote no
\* label and emitted no notification.
C8_PersistFailureAborts ==
    \A r \in RunIds :
        runs[r].err \in {"index", "refresh1"}
        => /\ runs[r].pc = "caught"
           /\ Range(runs[r].trace) \subseteq {"parse", "index"}
           /\ ~runs[r].fired
           /\ runs[r].category = NoCategory
           /\ \A n \in notified : n.run # r

\* C8 witness: the index request succeeded, the refresh failed, and the
\* document stays stored without a label.
C8_Witness ==
    \E r \in RunIds :
        /\ runs[r].err = "refresh1"
        /\ \E d \in DocsOf(runs[r].attrs) : d.from = r /\ d.aiCategory = NoCategory

\* The stored documents of the identifiers other than uid, without their
\* searchability.
OtherDocs(st, uid) ==
    {[id |-> d.id, from |-> d.from, aiCategory |-> d.aiCategory] : d \in {e \in st : e.id # uid}}

\* C9: a step of one message's handling leaves every other run as it was and
\* leaves the documents of the other identifiers as they were; the step in
\* which the handling fails changes nothing but that message's own run: the
\* store, the notifications, the fetches and the connection stay as they
\* were, so the other messages of the fetch go on as if it had not been there.
C9_FailureIsolated ==
    [][\A r \in RunIds :
          /\ runs'[r] # runs[r]
             => /\ \A s \in RunIds \ {r} : runs'[s] = runs[s]
                /\ OtherDocs(store', UidOf(runs[r].seq)) = OtherDocs(store, UidOf(runs[r].seq))
                /\ \A n \in notified' \ notified : n.run = r
          /\ (runs[r].pc # "caught" /\ runs'[r].pc = "caught")
             => /\ store' = store
                /\ notified' = notified
                /\ batches' = batches
                /\ conn' = conn]_vars

\* C9 witness: a message's handling failed and a message of the same fetch ran
\* through all its stages and was notified to both sinks.
C9_Witness ==
    \E r, s \in RunIds :
        /\ r # s
        /\ runs[r].batch = runs[s].batch
        /\ runs[r].pc = "caught"
        /\ runs[s].pc = "done"
        /\ runs[s].trace = Ops
        /\ r \in runs[s].prior

\* C10: every message a live fetch emits is one that arrived with the
\* notification that started the fetch.
C10_OnlyNewFetched ==
    \A r \in RunIds :
        runs[r].seq > batches[runs[r].batch].total - batches[runs[r].batch].numNew

\* C11: no failure ends the process: a failed openBox, a failed initial
\* search, a failed parse, store, classifier or sink request and a connection
\* error all leave it running.
C11_ProcessKeepsRunning == conn # "crashed"

\* C12: the initial backfill never runs the pipeline: whatever the number of
\* messages in its window, zero included, a step of the backfill (the search
\* callback, the handling of one message of its batch) writes nothing to the
\* store, begins and advances no run, sends no notification and raises no
\* error.
C12_BackfillStoresNothing ==
    [][(/\ backfill \in {"searching", "fetching"}
        /\ <<backfill, backfillLeft>>' # <<backfill, backfillLeft>>)
       => /\ store' = store
          /\ runs' = runs
          /\ notified' = notified
          /\ conn' = conn
          /\ (backfill = "fetching" => backfill' \in {"fetching", "done"})]_vars

\* The backfill of a window of one message has finished before any new mail:
\* nothing is stored.
C12_Witness ==
    /\ backfill = "done"
    /\ nMsgs >= 1
    /\ batches = <<>>
    /\ store = {}

Sinks == {"slack", "webhook"}

\* C13: a failed notification rolls nothing back and is not retried within
\* the run: the step in which a POST to a sink rejects leaves the store (the
\* document and the label the update wrote) and the notifications as they
\* were, and from then on the run is over: its record never changes again and
\* no notification is ever recorded for it again.
C13_NotifyFailureKeepsStore ==
    [][\A r \in RunIds :
         /\ (runs[r].pc \in Sinks /\ runs'[r].pc = "caught")
              => /\ store' = store
                 /\ notified' = notified
                 /\ runs'[r].err = runs[r].pc
         /\ runs[r].err \in Sinks
              => /\ runs'[r] = runs[r]
                 /\ \A n \in notified' \ notified : n.run # r]_vars

\* The POST to Slack of a run was rejected; the document it stored still
\* carries the label "Interested".
C13_Witness ==
    \E r \in RunIds :
        /\ runs[r].err = "slack"
        /\ \E d \in DocsOf(runs[r].attrs) : d.from = r /\ d.aiCategory = "Interested"

\* C14: when the Annotate stage of a run (the update of the label or the
\* refresh after it) fails for a record that is stored, the record stays
\* stored without a label and the run sends no notification.
C14_AnnotateFailureLeavesUnlabeled ==
    \A r \in RunIds :
        runs[r].err \in {"update", "refresh2"}
        => /\ \A d \in DocsOf(runs[r].attrs) : d.from = r => d.aiCategory = NoCategory
           /\ \A n \in notified : n.run # r

\* C15: the pipeline does not block for ever on the classifier: every run
\* that waits for the classifier's answer eventually leaves that wait and
\* ends, even when the classifier never answers.
C15_ClassifyTerminates ==
    \A r \in 1..MaxRuns :
        (r \in RunIds /\ runs[r].pc = "classify")
            ~> (r \in RunIds /\ runs[r].pc \in {"done", "caught"})

\* C16: a run whose label is "Interested" sends one event to each sink:
\* once Notify has fired and the run has ended, a POST to Slack and a POST to
\* the generic webhook have both been attempted, whatever became of the other.
C16_EachSinkAttempted ==
    \A r \in RunIds :
        (runs[r].fired /\ Ended(r))
        => \A k \in Sinks : k \in Range(runs[r].trace) \/ runs[r].err = k

\* C17: the session handles new mail only after the backfill: a live fetch
\* has been issued, or a run has begun, only if the initial search and the
\* fetch of its batch are over; and once they are over on an open connection
\* the 'mail' listener is registered and the keep-alive timer runs.
C17_IdleOnlyAfterBackfill ==
    /\ (batches # <<>> \/ runs # <<>>) => backfill \in {"done", "error"}
    /\ (backfill = "done" /\ conn = "open") => (listening /\ watchdog)

\* C18: all stored identity is UID-derived: every stored document is keyed by
\* the UID that the attributes event of the message it was written for
\* reported, never by that message's sequence number nor by the UID of
\* another message, however the events of the messages interleave; and a
\* message whose UID is still unknown when its body has been parsed is
\* written nowhere.
C18_IdentityIsOwnUid ==
    /\ \A d \in store :
          /\ d.from \in RunIds
          /\ d.id = runs[d.from].attrs
          /\ d.id = UidOf(runs[d.from].seq)
          /\ d.id # runs[d.from].seq
    /\ \A r \in RunIds :
          runs[r].err = "attributes"
          => /\ runs[r].trace = <<>>
             /\ \A d \in store : d.from # r

\* Two messages of one fetch: the body of one was parsed before its UID was
\* known, the other is stored under its own UID.
C18_Witness ==
    \E r, q \in RunIds :
        /\ r # q
        /\ runs[r].batch = runs[q].batch
        /\ runs[r].err = "attributes"
        /\ \E d \in store : d.from = q /\ d.id = UidOf(runs[q].seq)

\* C19: Persist replaces the whole stored document and Annotate changes only
\* the label.  The index write of a run leaves, for its identifier, exactly
\* the run's own fields with no label, and when every earlier run on the
\* identifier had ended before the run began, the document still carries no
\* label once Persist has completed, even though an earlier run had stored
\* one.  The update of a run changes, in the document of its identifier, the
\* label and nothing else, and changes no other document.
C19_ReplaceThenAnnotate ==
    [][\A r \in RunIds :
         LET uid  == runs[r].attrs
             same == {q \in RunIds \ {r} : runs[q].seq = runs[r].seq}
         IN /\ (runs[r].pc = "index" /\ runs'[r].pc = "refresh1")
                 => /\ {d \in store' : d.id = uid} =
                         {[id |-> uid, from |-> r, aiCategory |-> NoCategory,
                           fresh |-> FALSE]}
                    /\ OtherDocs(store', uid) = OtherDocs(store, uid)
            /\ (runs'[r].pc = "classify" /\ same \subseteq runs'[r].prior)
                 => \A d \in store' : d.id = uid
                        => (d.from = r /\ d.aiCategory = NoCategory)
            /\ (runs[r].pc = "update" /\ runs'[r].pc = "refresh2")
                 => /\ Cardinality(store') = Cardinality(store)
                    /\ OtherDocs(store', uid) = OtherDocs(store, uid)
                    /\ \A e \in store' : e.id = uid
                          => /\ e.aiCategory = runs[r].category
                             /\ \E d \in store : d.id = uid /\ d.from = e.from]_vars

\* A second run on an identifier has completed Persist after a first run had
\* ended and had stored a label: the document is the second run's, unlabeled.
C19_Witness ==
    \E r1, r2 \in RunIds :
        /\ runs[r1].seq = runs[r2].seq
        /\ r1 \in runs[r2].prior
        /\ runs[r1].pc = "done"
        /\ runs[r2].pc = "classify"
        /\ DocsOf(runs[r2].attrs) =
              {[id |-> runs[r2].attrs, from |-> r2, aiCategory |-> NoCategory,
                fresh |-> TRUE]}

\* The runs on the message with sequence number q.
RunsOn(q) == {r \in RunIds : runs[r].seq = q}

\* Two or more runs on q, all completed: one document, labeled by the update
\* that executed last.
LastAnnotateLabels(q) ==
    (Cardinality(RunsOn(q)) >= 2 /\ \A r \in RunsOn(q) : runs[r].pc = "done")
    => \E last \in RunsOn(q) :
          /\ RunsOn(q) \ {last} \subseteq runs[last].annotated
          /\ runs[last].category \in FiveLabels
          /\ \E d \in store :
                /\ DocsOf(UidOf(q)) = {d}
                /\ d.aiCategory = runs[last].category

\* Every run on q has ended and the document of q carries no label.
FinalUnlabeled(q) ==
    /\ \A r \in RunsOn(q) : Ended(r)
    /\ \E d \in DocsOf(UidOf(q)) : d.aiCategory = NoCategory

\* C20, as stated: when two or more runs on one identifier interleave in any
\* way and each of them completes every stage without error, then once all of
\* them have ended the store holds exactly one document for the identifier,
\* and its label is one of the five labels: the one written by the update
\* that executed last.  A final document without a label exists only when
\* some run on the identifier failed after its Persist had completed.
C20_UnlabeledOnlyAfterPersist ==
    \A q \in 1..MaxMsgs :
        /\ LastAnnotateLabels(q)
        /\ FinalUnlabeled(q)
             => \E r \in RunsOn(q) : /\ runs[r].pc = "caught"
                                      /\ "refresh1" \in Range(runs[r].trace)

\* C20, amended: the same, except that a final document without a label
\* exists only when some run on the identifier failed after its index write:
\* in the refresh that ends Persist, in Classify or in Annotate.
C20_LastAnnotateWins ==
    \A q \in 1..MaxMsgs :
        /\ LastAnnotateLabels(q)
        /\ FinalUnlabeled(q)
             => \E r \in RunsOn(q) : /\ runs[r].pc = "caught"
                                      /\ "index" \in Range(runs[r].trace)

\* Two runs on one identifier overlapped and both completed with different
\* labels: the document holds the fields of the second run and the label of
\* the first, whose update executed last.
C20_Witness ==
    \E r1, r2 \in RunIds :
        /\ r1 < r2
        /\ runs[r1].seq = runs[r2].seq
        /\ runs[r1].pc = "done" /\ runs[r2].pc = "done"
        /\ r2 \in runs[r1].annotated
        /\ runs[r1].category # runs[r2].category
        /\ \E d \in DocsOf(runs[r1].attrs) :
              d.from = r2 /\ d.aiCategory = runs[r1].category

====
